---- MODULE Spec2Model ----
(***************************************************************************)
(* Model of the request orchestration engine of Prompt-ops-backend:        *)
(*   - withRetry, the retrying invoker, in its three copies                *)
(*     (src/chatbot.js:23, src/services/geminiService.js:24 and :346);     *)
(*   - the in-memory session store chatHistories with startChatSession     *)
(*     and sendMessage (src/services/geminiService.js:339-572), driven by  *)
(*     handleStartSession / handleSendMessage                              *)
(*     (src/controllers/chatController.js);                                *)
(*   - detectContentType in its three versions, with strings as character  *)
(*     sequences;                                                          *)
(*   - the schemas and generateStructuredContent (src/chatbot.js and the   *)
(*     first half of services/geminiService.js), driven by                 *)
(*     handleContentGeneration.                                            *)
(*                                                                         *)
(* Node runs one callback at a time: every action below is the code that   *)
(* runs between two suspension points (await), so an async function is one *)
(* action per segment.  Times are integer milliseconds.                    *)
(***************************************************************************)
EXTENDS Integers, Sequences, FiniteSets, TLC

VARIABLES
  \* ---- one call of withRetry, observed from outside -------------------
  copy,          \* which copy of withRetry runs: "chatbot", "content", "chat"
  maxRetries,    \* argument maxRetries
  initialDelay,  \* argument initialDelay (ms)
  attempt,       \* the loop variable
  wrPc,          \* "idle", "await" (in apiCallFn), "sleep" (in setTimeout),
                 \* "returned", "thrown"
  apiCalls,      \* outcome of every invocation of apiCallFn, in order:
                 \* Pending, OK or the status of the error it threw
  delays,        \* the delays handed to setTimeout, in order
  warnings,      \* console.warn lines: the seconds each one announces
  errorLog,      \* number of console.error lines
  wrResult,      \* how the call ended
  \* ---- the chat service (second half of services/geminiService.js) ----
  chatHistories, \* the own properties of the object chatHistories:
                 \* session id -> array of turns
  startLog,      \* the calls of startChatSession: the id each returned, and
                 \* whether the store held a turn when it was called
  uploads,       \* the staged files that exist, named by their request
  req,           \* the requests, by request number: those to POST
                 \* /send-message, and the number a stateless one took
  \* ---- generateStructuredContent (chatbot.js, services/geminiService.js)
  gen,           \* the latest stateless request
  failures,      \* what has failed in stateless requests so far: the error
                 \* raised and the error the caller got
  \* ---- generateImage (all three copies) -----------------------------
  img,           \* the latest request to generate an image
  \* ---- detectContentType --------------------------------------------
  prompt,        \* the prompt being classified, a sequence of characters
  detected,      \* what each copy of detectContentType returned for it
  selected       \* what the switch of each stateless copy selected for it

wrVars == <<copy, maxRetries, initialDelay, attempt, wrPc, apiCalls, delays,
            warnings, errorLog, wrResult>>

chatVars == <<chatHistories, startLog, uploads, req>>

classVars == <<prompt, detected, selected>>

genVars == <<gen, failures, img>>

vars == <<wrVars, chatVars, genVars, classVars>>

-----------------------------------------------------------------------------
(* Bounds of the model *)

\* largest maxRetries argument explored (the default, 5, is within it)
MaxRetriesArg == 5

\* number of /send-message requests explored
MaxRequests == 2

\* largest number of words in a prompt handed to detectContentType
MaxWords == 3

(* Program constants *)

DefaultMaxRetries == 5
DefaultInitialDelay == 2000
\* Math.random() * 1000: the jitter lies in [0, JitterRange)
JitterRange == 1000
\* const questionCount = match ? parseInt(match[1]) : 20
DefaultQuestionCount == 20

\* Jitter values explored: both ends of [0, JitterRange) and one inside.
Jitters == {0, 500, JitterRange - 1}

Copies == {"chatbot", "content", "chat"}
\* the two copies of services/geminiService.js
ServiceCopies == {"content", "chat"}

\* maxRetries arguments explored; 0 and -1 never enter the loop
MaxRetriesArgs == -1 .. MaxRetriesArg
InitialDelays == {DefaultInitialDelay, 100}

\* Outcomes of apiCallFn.  OK: the promise resolved.  Otherwise error.status
\* of the rejection: 429 rate limit, 503 unavailable, 500 any other failure.
Pending == 0
OK == 200
ErrorStatuses == {429, 503, 500}

Last(s) == s[Len(s)]

-----------------------------------------------------------------------------
(* withRetry *)

\* chatbot.js: if (error.status === 429)
IsRetryableChatbot(status) == status = 429

\* a catch block that retries whatever the error is
IsRetryable_AnyError(status) == TRUE

\* services/geminiService.js, both copies:
\* if (error.status === 429 || error.status === 503)
IsRetryableService(status) == status = 429 \/ status = 503

\* the catch block's test of error.status in copy c
IsRetryable(c, status) ==
  IF c = "chatbot" THEN IsRetryableChatbot(status)
  ELSE IsRetryableService(status)

\* if (attempt === maxRetries - 1)
IsLastAttempt(att, maxR) == att = maxR - 1

\* a backoff that grows linearly
BackoffDelay_Linear(initDelay, att, jitter) == initDelay * (att + 1) + jitter

\* initialDelay * Math.pow(2, attempt) + Math.random() * 1000
BackoffDelay(initDelay, att, jitter) == initDelay * (2 ^ att) + jitter

\* Math.round(delay / 1000)
RoundSeconds(delay) == (delay + 500) \div 1000

\* a retry that is not logged
LogWarning_Silent(log, delay) == log

\* console.warn(`... Retrying in ${Math.round(delay / 1000)}s...`)
LogWarning(log, delay) == Append(log, RoundSeconds(delay))

NoResult == [kind |-> "none", at |-> 0, status |-> 0]
\* the value invocation n of apiCallFn resolved with
Value(n) == [kind |-> "value", at |-> n, status |-> OK]
\* the error invocation n of apiCallFn rejected with
Error(n, status) == [kind |-> "error", at |-> n, status |-> status]
\* the loop ended without return or throw: the async function yields undefined
Undefined == [kind |-> "undefined", at |-> 0, status |-> 0]

\* withRetry(apiCallFn, maxRetries, initialDelay) is called: attempt = 0 and,
\* if the loop condition holds, apiCallFn is invoked and awaited.
WithRetryCall(c, maxR, initDelay) ==
  /\ wrPc = "idle"
  /\ copy' = c
  /\ maxRetries' = maxR
  /\ initialDelay' = initDelay
  /\ attempt' = 0
  /\ delays' = <<>>
  /\ warnings' = <<>>
  /\ errorLog' = 0
  /\ IF 0 < maxR
       THEN /\ apiCalls' = <<Pending>>
            /\ wrPc' = "await"
            /\ wrResult' = NoResult
       ELSE /\ apiCalls' = <<>>
            /\ wrPc' = "returned"
            /\ wrResult' = Undefined
  /\ UNCHANGED <<chatVars, classVars, genVars>>

\* apiCallFn settles with `outcome`; the rest of the loop body runs up to the
\* next await (setTimeout), a return or a throw.
ApiCallSettles(outcome, jitter) ==
  /\ wrPc = "await"
  /\ LET n == Len(apiCalls)
         settled == [apiCalls EXCEPT ![n] = outcome]
         delay == BackoffDelay(initialDelay, attempt, jitter)
     IN /\ apiCalls' = settled
        /\ IF outcome = OK
             THEN /\ wrPc' = "returned"
                  /\ wrResult' = Value(n)
                  /\ UNCHANGED <<delays, warnings, errorLog>>
             ELSE IF IsRetryable(copy, outcome)
               THEN IF IsLastAttempt(attempt, maxRetries)
                 THEN /\ errorLog' = errorLog + 1
                      /\ wrPc' = "thrown"
                      /\ wrResult' = Error(n, outcome)
                      /\ UNCHANGED <<delays, warnings>>
                 ELSE /\ warnings' = LogWarning(warnings, delay)
                      /\ delays' = Append(delays, delay)
                      /\ wrPc' = "sleep"
                      /\ UNCHANGED <<errorLog, wrResult>>
               ELSE /\ wrPc' = "thrown"
                    /\ wrResult' = Error(n, outcome)
                    /\ UNCHANGED <<delays, warnings, errorLog>>
  /\ UNCHANGED <<copy, maxRetries, initialDelay, attempt, chatVars,
                 classVars, genVars>>

\* the timer fires: attempt++, the loop condition is tested and apiCallFn is
\* invoked again.
TimerFires ==
  /\ wrPc = "sleep"
  /\ attempt' = attempt + 1
  /\ IF attempt + 1 < maxRetries
       THEN /\ apiCalls' = Append(apiCalls, Pending)
            /\ wrPc' = "await"
            /\ wrResult' = wrResult
       ELSE /\ apiCalls' = apiCalls
            /\ wrPc' = "returned"
            /\ wrResult' = Undefined
  /\ UNCHANGED <<copy, maxRetries, initialDelay, delays, warnings, errorLog,
                 chatVars, classVars, genVars>>

WrInit ==
  /\ copy = "chat"
  /\ maxRetries = DefaultMaxRetries
  /\ initialDelay = DefaultInitialDelay
  /\ attempt = 0
  /\ wrPc = "idle"
  /\ apiCalls = <<>>
  /\ delays = <<>>
  /\ warnings = <<>>
  /\ errorLog = 0
  /\ wrResult = NoResult

WrNext ==
  \/ \E c \in Copies, maxR \in MaxRetriesArgs, d \in InitialDelays :
       WithRetryCall(c, maxR, d)
  \/ \E outcome \in {OK} \cup ErrorStatuses, jitter \in Jitters :
       ApiCallSettles(outcome, jitter)
  \/ TimerFires

-----------------------------------------------------------------------------
(* The session store, startChatSession and sendMessage *)

\* randomUUID(): the values it returns, call after call.  A version 4 UUID
\* has 122 random bits; the model takes the values to be distinct.
UuidStream == <<"uuid-1", "uuid-2">>
SessionIds == {UuidStream[i] : i \in 1 .. Len(UuidStream)}
\* names every object inherits from Object.prototype: chatHistories[name] is
\* defined (and truthy) for them although no session has that name
\* ("constructor", "__proto__", "toString", ...); one of them is explored
InheritedKeys == {"constructor"}
\* the sessionId field of a request body; "" stands for a missing field
SessionIdArgs == {""} \cup SessionIds \cup InheritedKeys

Requests == 1 .. MaxRequests

\* result.text of a resolved generateContent call
ResponseTexts == {"{\"title\":1}", "{ \"title\": 1 }", "not json"}

\* JSON values, by their type: a string, an integer, an array of values and
\* an object with its properties (the characters and digits are left out)
JString == [type |-> "STRING"]
JInteger == [type |-> "INTEGER"]
JArray(items) == [type |-> "ARRAY", items |-> items]
JObject(properties) == [type |-> "OBJECT", properties |-> properties]

\* what JSON.parse throws for a text that is not JSON
SyntaxError == [type |-> "SyntaxError"]

\* response texts that fit a schema: DefaultSchema / GeneralContentSchema,
\* and QuizSchema with one question
GeneralText == "{\"title\":\"T\",\"summary\":\"S\",\"content\":\"C\"}"
QuizText ==
  "{\"title\":\"T\",\"questions\":[{\"questionNumber\":1,\"question\":\"Q\",\"choices\":[\"A\"],\"correctAnswer\":\"A\"}]}"

\* a parse that accepts every text
JsonParse_Lenient(text) == JObject([title |-> JString])

\* JSON.parse(text): the parsed value, or SyntaxError when it throws
JsonParse(text) ==
  IF text \in {"{\"title\":1}", "{ \"title\": 1 }"}
    THEN JObject([title |-> JInteger])
  ELSE IF text = GeneralText
    THEN JObject([title |-> JString, summary |-> JString,
                  content |-> JString])
  ELSE IF text = QuizText
    THEN JObject([title |-> JString,
                  questions |-> JArray(<<
                    JObject([questionNumber |-> JInteger,
                             question |-> JString,
                             choices |-> JArray(<<JString>>),
                             correctAnswer |-> JString]) >>)])
  ELSE SyntaxError

\* { role: "user", parts: [{ text: prompt }, inlineData?] } of request r
UserTurn(r, withData) ==
  [role |-> "user", req |-> r, text |-> "prompt", data |-> withData]
\* { role: "model", parts: [{ text }] }
ModelTurn(r, text) ==
  [role |-> "model", req |-> r, text |-> text, data |-> FALSE]

\* chatHistories[sessionId]: an array for a session that was started, an
\* inherited object (truthy, without push) for an inherited name, else
\* undefined
Lookup(sid) ==
  IF sid \in DOMAIN chatHistories THEN "array"
  ELSE IF sid \in InheritedKeys THEN "inherited"
  ELSE "undefined"

NewRequest ==
  [pc |-> "new", sid |-> "", hasFile |-> FALSE, attempt |-> 0, calls |-> 0,
   snap |-> <<>>, sent |-> <<>>, text |-> "", result |-> "none"]

\* the request has ended with the response `result`; what it saw and sent
\* is observed only while it is in flight
Ended(q, result) ==
  [q EXCEPT !.pc = "done", !.result = result, !.snap = <<>>, !.sent = <<>>]

\* const sessionId = randomUUID()
RandomUUID == UuidStream[Len(startLog) + 1]

\* a store that is emptied whenever a session starts
SetEmptyHistory_Reset(store, sessionId) ==
  [s \in DOMAIN store \cup {sessionId} |-> <<>>]

\* chatHistories[sessionId] = []
SetEmptyHistory(store, sessionId) ==
  [s \in DOMAIN store \cup {sessionId} |->
     IF s = sessionId THEN <<>> ELSE store[s]]

\* startChatSession (through handleStartSession): a new UUID gets an empty
\* history and is returned.
StartChatSession ==
  /\ Len(startLog) < Len(UuidStream)
  /\ LET sessionId == RandomUUID
     IN /\ chatHistories' = SetEmptyHistory(chatHistories, sessionId)
        /\ startLog' = Append(startLog,
             [id |-> sessionId,
              busy |-> \E s \in DOMAIN chatHistories :
                         chatHistories[s] # <<>>])
  /\ UNCHANGED <<uploads, req, wrVars, classVars, genVars>>

\* an insertion at the front of the array
Push_Front(history, message) == <<message>> \o history

\* history.push(message)
Push(history, message) == Append(history, message)

\* a cleanup that leaves the file where it is
UnlinkSync_Skipped(files, name) == files

\* fs.unlinkSync(tempFilePath)
UnlinkSync(files, name) == files \ {name}

\* a store with one array that every session shares
SetHistory_Shared(store, sessionId, history) ==
  [s \in DOMAIN store |-> history]

\* history is chatHistories[sessionId] itself: what is pushed to it is in
\* the store under that identifier, and under no other
SetHistory(store, sessionId, history) ==
  [store EXCEPT ![sessionId] = history]

\* a call that sends the new message alone
Contents_LastOnly(history) == <<Last(history)>>

\* contents: history -- the transcript an invocation of generateContent sends
Contents(history) == history

\* a check of the staged file that never fails
NotFound_Ignored(hasFile, staged) == FALSE

\* if (file) { ... if (!fs.existsSync(tempFilePath))
NotFound(hasFile, staged) == hasFile /\ ~staged

\* a test that asks for the prompt only
MissingFields_PromptOnly(hasPrompt, sid) == ~hasPrompt

\* if (!prompt || !sessionId)
MissingFields(hasPrompt, sid) == ~hasPrompt \/ sid = ""

\* handleSendMessage receives request r (multer has staged its file, if it
\* has one and `staged` holds) and runs, through sendMessage and withRetry,
\* up to the first await of generateContent.
HandleSendMessage(r, hasPrompt, sid, hasFile, staged) ==
  /\ req[r].pc = "new"
  /\ r > 1 => req[r - 1].pc # "new"
  /\ hasFile \/ ~staged
  /\ LET \* the arguments of sendMessage(sessionId, prompt, file)
         q == [req[r] EXCEPT !.sid = sid, !.hasFile = hasFile]
         onDisk == IF staged THEN uploads \cup {r} ELSE uploads
     IN IF MissingFields(hasPrompt, sid)
          THEN \* res.status(400): sendMessage is not called
               /\ req' = [req EXCEPT ![r] = Ended(req[r], "BadRequest")]
               /\ uploads' = onDisk
               /\ UNCHANGED chatHistories
          ELSE IF Lookup(sid) = "undefined"
          THEN \* throw new Error("Invalid session ID. ...")
               /\ req' = [req EXCEPT ![r] = Ended(q, "InvalidSession")]
               /\ uploads' = onDisk
               /\ UNCHANGED chatHistories
          ELSE IF NotFound(hasFile, staged)
          THEN \* throw new Error(`File not found: ...`), caught and replaced
               /\ req' = [req EXCEPT ![r] = Ended(q, "Failed")]
               /\ uploads' = onDisk
               /\ UNCHANGED chatHistories
          ELSE IF Lookup(sid) = "inherited"
          THEN \* the file is read and unlinked, then history.push is not a
               \* function: TypeError, caught and replaced
               /\ req' = [req EXCEPT ![r] = Ended(q, "Failed")]
               /\ uploads' = UnlinkSync(onDisk, r)
               /\ UNCHANGED chatHistories
          ELSE LET history == Push(chatHistories[sid], UserTurn(r, hasFile))
               IN /\ chatHistories' = SetHistory(chatHistories, sid, history)
                  /\ uploads' = UnlinkSync(onDisk, r)
                  /\ req' = [req EXCEPT ![r] =
                       [q EXCEPT !.pc = "await", !.attempt = 0, !.calls = 1,
                                 !.snap = chatHistories[sid],
                                 !.sent = Contents(history)]]
  /\ UNCHANGED <<startLog, wrVars, classVars, genVars>>

\* generateContent settles for request r; the rest of withRetry's loop body
\* and of sendMessage runs up to the next await or the end of the request.
GenerateContentSettles(r, outcome, text) ==
  /\ req[r].pc = "await"
  /\ LET q == req[r]
         sid == q.sid
     IN IF outcome = OK
          THEN IF JsonParse(text) = SyntaxError
            THEN /\ req' = [req EXCEPT ![r] =
                       Ended([q EXCEPT !.text = text], "Failed")]
                 /\ UNCHANGED chatHistories
            ELSE /\ chatHistories' = SetHistory(chatHistories, sid,
                       Push(chatHistories[sid], ModelTurn(r, text)))
                 /\ req' = [req EXCEPT ![r] =
                       Ended([q EXCEPT !.text = text], "ok")]
          ELSE IF IsRetryable("chat", outcome)
                  /\ ~IsLastAttempt(q.attempt, DefaultMaxRetries)
            THEN /\ req' = [req EXCEPT ![r].pc = "sleep"]
                 /\ UNCHANGED chatHistories
            ELSE /\ req' = [req EXCEPT ![r] = Ended(q, "Failed")]
                 /\ UNCHANGED chatHistories
  /\ UNCHANGED <<startLog, uploads, wrVars, classVars, genVars>>

\* the retry timer of request r fires: attempt++ and generateContent is
\* invoked again with contents: history, the session's array as it is now.
RetryTimerFires(r) ==
  /\ req[r].pc = "sleep"
  /\ req' = [req EXCEPT ![r].pc = "await",
                        ![r].attempt = @ + 1,
                        ![r].calls = @ + 1,
                        ![r].sent = Contents(chatHistories[req[r].sid])]
  /\ UNCHANGED <<chatHistories, startLog, uploads, wrVars,
                 classVars, genVars>>

ChatInit ==
  /\ chatHistories = <<>>
  /\ startLog = <<>>
  /\ uploads = {}
  /\ req = [r \in Requests |-> NewRequest]

\* what generateContent may settle with
SettleNext ==
  \E r \in Requests, outcome \in {OK} \cup ErrorStatuses,
     text \in ResponseTexts :
    GenerateContentSettles(r, outcome, text)

\* requests without attachment, in any interleaving
ChatNext ==
  \/ StartChatSession
  \/ \E r \in Requests, hasPrompt \in BOOLEAN, sid \in SessionIdArgs :
       HandleSendMessage(r, hasPrompt, sid, FALSE, FALSE)
  \/ SettleNext
  \/ \E r \in Requests : RetryTimerFires(r)

-----------------------------------------------------------------------------
(* detectContentType, in its three versions.  A string is the sequence of  *)
(* its characters, so that toLowerCase and includes are computed.          *)

\* the letters toLowerCase changes, and what it changes them to
UpperCase == <<"A", "B", "C", "D", "E", "F", "G", "H", "I", "J", "K", "L", "M">>
             \o <<"N", "O", "P", "Q", "R", "S", "T", "U", "V", "W", "X", "Y", "Z">>
LowerCase == <<"a", "b", "c", "d", "e", "f", "g", "h", "i", "j", "k", "l", "m">>
             \o <<"n", "o", "p", "q", "r", "s", "t", "u", "v", "w", "x", "y", "z">>

ToLowerChar(ch) ==
  IF \E i \in 1 .. Len(UpperCase) : UpperCase[i] = ch
    THEN LowerCase[CHOOSE i \in 1 .. Len(UpperCase) : UpperCase[i] = ch]
    ELSE ch

\* a conversion that leaves the string as it is
ToLowerCase_Identity(str) == str

\* str.toLowerCase()
ToLowerCase(str) == [i \in 1 .. Len(str) |-> ToLowerChar(str[i])]

\* str.includes(keyword): keyword occurs in str at some offset
Includes(str, keyword) ==
  \E off \in 0 .. (Len(str) - Len(keyword)) :
    \A j \in 1 .. Len(keyword) : str[off + j] = keyword[j]

\* the keywords, as strings
KwLessonPlan == <<"l", "e", "s", "s", "o", "n", " ", "p", "l", "a", "n">>
KwAssignment == <<"a", "s", "s", "i", "g", "n", "m", "e", "n", "t">>
KwQuiz == <<"q", "u", "i", "z">>
KwQuizzes == <<"q", "u", "i", "z", "z", "e", "s">>
KwLecture == <<"l", "e", "c", "t", "u", "r", "e">>
KwPpt == <<"p", "p", "t">>
KwPresentation == <<"p", "r", "e", "s", "e", "n", "t", "a", "t", "i", "o", "n">>
KwPowerpoint == <<"p", "o", "w", "e", "r", "p", "o", "i", "n", "t">>
KwSlides == <<"s", "l", "i", "d", "e", "s">>
KwPdf == <<"p", "d", "f">>
KwDocx == <<"d", "o", "c", "x">>
KwDocument == <<"d", "o", "c", "u", "m", "e", "n", "t">>
KwReport == <<"r", "e", "p", "o", "r", "t">>

\* keywordPriority of the stateless detectContentType (services/geminiService.js)
KeywordPriority ==
  << [name |-> "lessonPlan", keywords |-> <<KwLessonPlan>>, priority |-> 1],
     [name |-> "assignment", keywords |-> <<KwAssignment>>, priority |-> 2],
     [name |-> "quiz", keywords |-> <<KwQuiz, KwQuizzes>>, priority |-> 2],
     [name |-> "lecture", keywords |-> <<KwLecture>>, priority |-> 3] >>

\* the table of the stateless classifier in the place of the stateful one
KeywordPriorityChat_Stateless == KeywordPriority

\* keywordPriority of the stateful detectContentType
KeywordPriorityChat ==
  << [name |-> "presentation",
      keywords |-> <<KwPpt, KwPresentation, KwPowerpoint, KwSlides>>,
      priority |-> 1],
     [name |-> "document",
      keywords |-> <<KwPdf, KwDocx, KwDocument, KwReport>>,
      priority |-> 2] >>

\* a start value that the last group does not beat
DefaultMatch_Three == [name |-> "default", priority |-> 3]

\* let bestMatch = { name: "default", priority: 99 }
DefaultMatch == [name |-> "default", priority |-> 99]

\* a test that lets every match replace the best match
Better_Always(type, bestMatch) == TRUE

\* a test that lets an equal priority replace the best match
Better_OrEqual(type, bestMatch) == type.priority <= bestMatch.priority

\* type.priority < bestMatch.priority
Better(type, bestMatch) == type.priority < bestMatch.priority

\* for (const keyword of type.keywords): the keywords from index k on
RECURSIVE KeywordLoop(_, _, _, _)
KeywordLoop(lowerCasePrompt, type, k, bestMatch) ==
  IF k > Len(type.keywords) THEN bestMatch
  ELSE KeywordLoop(lowerCasePrompt, type, k + 1,
         IF Includes(lowerCasePrompt, type.keywords[k]) /\ Better(type, bestMatch)
           THEN [name |-> type.name, priority |-> type.priority]
           ELSE bestMatch)

\* for (const type of keywordPriority): the types from index t on
RECURSIVE TypeLoop(_, _, _, _)
TypeLoop(lowerCasePrompt, table, t, bestMatch) ==
  IF t > Len(table) THEN bestMatch
  ELSE TypeLoop(lowerCasePrompt, table, t + 1,
         KeywordLoop(lowerCasePrompt, table[t], 1, bestMatch))

\* detectContentType of services/geminiService.js, stateless half
DetectContentType(str) ==
  TypeLoop(ToLowerCase(str), KeywordPriority, 1, DefaultMatch).name

\* detectContentType of services/geminiService.js, chat half
DetectContentTypeChat(str) ==
  TypeLoop(ToLowerCase(str), KeywordPriorityChat, 1, DefaultMatch).name

\* detectContentType of chatbot.js: a chain of tests
DetectContentTypeChatbot(str) ==
  LET lowerCasePrompt == ToLowerCase(str)
  IN IF Includes(lowerCasePrompt, KwLessonPlan) THEN "lessonPlan"
     ELSE IF Includes(lowerCasePrompt, KwAssignment) THEN "assignment"
     ELSE IF Includes(lowerCasePrompt, KwQuiz)
             \/ Includes(lowerCasePrompt, KwQuizzes) THEN "quiz"
     ELSE IF Includes(lowerCasePrompt, KwLecture) THEN "lecture"
     ELSE "default"

\* detectContentType as copy c has it
Detect(c, str) ==
  IF c = "chatbot" THEN DetectContentTypeChatbot(str)
  ELSE IF c = "content" THEN DetectContentType(str)
  ELSE DetectContentTypeChat(str)

\* the words prompts are made of: keywords in either case, the two halves of
\* a keyword, words that hold a keyword, and a word that holds none
Words ==
  << <<"l", "e", "s", "s", "o", "n">>,
     <<"p", "l", "a", "n">>,
     <<"A", "s", "s", "i", "g", "n", "m", "e", "n", "t">>,
     <<"q", "u", "i", "z">>,
     <<"Q", "U", "I", "Z", "Z", "E", "S">>,
     <<"l", "e", "c", "t", "u", "r", "e", "s">>,
     <<"s", "l", "i", "d", "e", "s">>,
     <<"P", "D", "F">>,
     <<"e", "s", "s", "a", "y">> >>

Space == <<" ">>

\* the prompts of n words, joined by single spaces
RECURSIVE PromptsOf(_)
PromptsOf(n) ==
  IF n = 0 THEN {<<>>}
  ELSE IF n = 1 THEN {Words[w] : w \in 1 .. Len(Words)}
  ELSE {p \o Space \o Words[w] : p \in PromptsOf(n - 1), w \in 1 .. Len(Words)}

Prompts == UNION {PromptsOf(n) : n \in 0 .. MaxWords}

\* detected[c] before copy c has classified the prompt
Unset == "unset"

\* detectContentType(prompt) is called in copy c
DetectContentTypeCall(c) ==
  /\ detected[c] = Unset
  /\ detected' = [detected EXCEPT ![c] = Detect(c, prompt)]
  /\ UNCHANGED <<prompt, selected, wrVars, chatVars, genVars>>

ClassifyIdle ==
  /\ prompt = <<>>
  /\ detected = [c \in Copies |-> Unset]

ClassifyInit ==
  /\ prompt \in Prompts
  /\ detected = [c \in Copies |-> Unset]

ClassifyNext == \E c \in Copies : DetectContentTypeCall(c)

-----------------------------------------------------------------------------
(* The schemas, and generateStructuredContent through                      *)
(* handleContentGeneration                                                 *)

\* { type: "STRING" }, { type: "INTEGER" }, { type: "ARRAY", items },
\* { type: "OBJECT", properties, required }
TString == [type |-> "STRING"]
TInteger == [type |-> "INTEGER"]
TArray(items) == [type |-> "ARRAY", items |-> items]
TObject(properties, required) ==
  [type |-> "OBJECT", properties |-> properties, required |-> required]

DefaultSchema ==
  TObject([title |-> TString, summary |-> TString, content |-> TString],
          {"title", "summary", "content"})

LessonPlanSchema ==
  TObject([title |-> TString, gradeLevel |-> TString, duration |-> TString,
           learningObjectives |-> TArray(TString),
           keyTerms |-> TArray(TString), hookIntroduction |-> TString,
           mainActivity |-> TString, assessment |-> TString],
          {"title", "gradeLevel", "duration", "learningObjectives",
           "keyTerms", "hookIntroduction", "mainActivity", "assessment"})

AssignmentSchema ==
  TObject([title |-> TString, instructions |-> TString,
           submissionCriteria |-> TString, rubric |-> TString],
          {"title", "instructions", "submissionCriteria", "rubric"})

QuizSchema ==
  TObject([title |-> TString,
           questions |-> TArray(
             TObject([questionNumber |-> TInteger, question |-> TString,
                      choices |-> TArray(TString),
                      correctAnswer |-> TString],
                     {"questionNumber", "question", "choices",
                      "correctAnswer"}))],
          {"title", "questions"})

LectureSchema ==
  TObject([title |-> TString, duration |-> TString,
           keyConcepts |-> TArray(TString), script |-> TString],
          {"title", "duration", "keyConcepts", "script"})

WebSearchResultSchema ==
  TObject([title |-> TString, url |-> TString, snippet |-> TString],
          {"title", "url", "snippet"})

PresentationSchema ==
  TObject([title |-> TString,
           simulatedSources |-> TArray(WebSearchResultSchema),
           slides |-> TArray(
             TObject([slideNumber |-> TInteger, title |-> TString,
                      content |-> TArray(TString),
                      speakerNotes |-> TString,
                      slideCode |-> [type |-> "XML/HTML"]],
                     {"slideNumber", "title", "content", "speakerNotes"}))],
          {"title", "simulatedSources", "slides"})

DocumentSchema ==
  TObject([title |-> TString,
           simulatedSources |-> TArray(WebSearchResultSchema),
           summary |-> TString,
           sections |-> TArray(
             TObject([subtitle |-> TString, content |-> TString],
                     {"subtitle", "content"}))],
          {"title", "simulatedSources", "summary", "sections"})

GeneralContentSchema ==
  TObject([title |-> TString, summary |-> TString, content |-> TString],
          {"title", "summary", "content"})

\* switch (contentType): the schema copy c selects for a label
SchemaFor(c, contentType) ==
  IF c = "chat"
    THEN IF contentType = "presentation" THEN PresentationSchema
         ELSE IF contentType = "document" THEN DocumentSchema
         ELSE GeneralContentSchema
    ELSE IF contentType = "lessonPlan" THEN LessonPlanSchema
         ELSE IF contentType = "assignment" THEN AssignmentSchema
         ELSE IF contentType = "quiz" THEN QuizSchema
         ELSE IF contentType = "lecture" THEN LectureSchema
         ELSE DefaultSchema

\* the two copies of generateStructuredContent: chatbot.js and the first
\* half of services/geminiService.js
StatelessCopies == {"chatbot", "content"}

\* the prompts of POST /generate-content explored: none, "quiz" and "essay"
GenPrompts == {<<>>, Words[4], Words[9]}

\* req.file and the staged file: no attachment; an attachment whose staged
\* file is gone; one whose staged file cannot be read (readFileSync throws);
\* one that is staged and readable
Files == {"none", "missing", "unreadable", "staged"}

\* result.text of a resolved generateContent call of the stateless path
GenResponseTexts == {"not json", "{\"title\":1}", GeneralText, QuizText}

\* the errors raised inside the try block of generateStructuredContent
Causes ==
  {"FileNotFound", "ReadError", "RetriesExhausted", "UpstreamFailure",
   "SyntaxError"}

\* catch (error) { console.error(...); throw new Error("Failed to generate
\* a structured response from the AI model."); }
Rethrow(cause) ==
  "Failed to generate a structured response from the AI model."

IdleGen ==
  [r |-> 0, pc |-> "idle", copy |-> "content", label |-> "default",
   file |-> "none", attempt |-> 0, calls |-> 0, sent |-> <<>>, text |-> "",
   result |-> "none", cause |-> "none"]

\* the stateless request has ended with the response `result`
GenEnded(g, result) ==
  [g EXCEPT !.pc = "done", !.result = result, !.sent = <<>>]

\* an error raised inside the try block reaches the caller
GenFails(g, cause) ==
  /\ gen' = GenEnded([g EXCEPT !.cause = cause], Rethrow(cause))
  /\ failures' = failures \cup {[cause |-> cause, error |-> Rethrow(cause)]}

\* handleContentGeneration receives request r with the prompt promptText
\* and runs, through generateStructuredContent of copy c and withRetry, up
\* to the first await of generateContent.
HandleContentGeneration(r, c, promptText, file) ==
  /\ req[r].pc = "new"
  /\ r > 1 => req[r - 1].pc # "new"
  /\ req' = [req EXCEPT ![r] = Ended(req[r], "stateless")]
  /\ LET onDisk == IF file \in {"staged", "unreadable"}
                     THEN uploads \cup {r} ELSE uploads
         g == [IdleGen EXCEPT !.r = r, !.copy = c, !.file = file]
         q == [g EXCEPT !.label = Detect(c, promptText)]
     IN IF promptText = <<>>
          THEN \* res.status(400): generateStructuredContent is not called
               /\ gen' = GenEnded(g, "BadRequest")
               /\ uploads' = onDisk
               /\ UNCHANGED failures
          ELSE IF file = "missing"
          THEN \* throw new Error(`File not found: ...`)
               /\ GenFails(q, "FileNotFound")
               /\ uploads' = onDisk
          ELSE IF file = "unreadable"
          THEN \* fs.readFileSync throws; unlinkSync is not reached
               /\ GenFails(q, "ReadError")
               /\ uploads' = onDisk
          ELSE \* the file, if any, is read, encoded and unlinked
               /\ gen' = [q EXCEPT !.pc = "await", !.calls = 1,
                                   !.sent = <<UserTurn(r, file = "staged")>>]
               /\ uploads' = UnlinkSync(onDisk, r)
               /\ UNCHANGED failures
  /\ UNCHANGED <<img, chatHistories, startLog, wrVars, classVars>>

\* generateContent settles for the stateless request; the rest of
\* withRetry's loop body and of generateStructuredContent runs up to the
\* next await or the end of the request.
GenSettles(outcome, text) ==
  /\ gen.pc = "await"
  /\ IF outcome = OK
       THEN IF JsonParse(text) = SyntaxError
         THEN GenFails([gen EXCEPT !.text = text], "SyntaxError")
         ELSE /\ gen' = GenEnded([gen EXCEPT !.text = text], "ok")
              /\ UNCHANGED failures
       ELSE IF IsRetryable(gen.copy, outcome)
         THEN IF IsLastAttempt(gen.attempt, DefaultMaxRetries)
           THEN GenFails(gen, "RetriesExhausted")
           ELSE /\ gen' = [gen EXCEPT !.pc = "sleep"]
                /\ UNCHANGED failures
         ELSE GenFails(gen, "UpstreamFailure")
  /\ UNCHANGED <<img, chatVars, wrVars, classVars>>

\* the retry timer of the stateless request fires: attempt++ and
\* generateContent is invoked again with the same contents
GenRetryTimerFires ==
  /\ gen.pc = "sleep"
  /\ gen' = [gen EXCEPT !.pc = "await", !.attempt = @ + 1, !.calls = @ + 1]
  /\ UNCHANGED <<failures, img, chatVars, wrVars, classVars>>

GenInit ==
  /\ gen = IdleGen
  /\ failures = {}

GenSettleNext ==
  \E outcome \in {OK} \cup ErrorStatuses, text \in GenResponseTexts :
    GenSettles(outcome, text)

\* no request is between its arrival and its response
Quiet ==
  /\ \A r \in Requests : req[r].pc \in {"new", "done"}
  /\ gen.pc \in {"idle", "done"}
  /\ img.pc \in {"idle", "done"}

\* requests to /send-message with and without attachment, one at a time
AttachNext ==
  \/ StartChatSession
  \/ \E r \in Requests, hasPrompt \in BOOLEAN, sid \in SessionIdArgs,
        hasFile \in BOOLEAN, staged \in BOOLEAN :
       Quiet /\ HandleSendMessage(r, hasPrompt, sid, hasFile, staged)
  \/ SettleNext
  \/ \E r \in Requests : RetryTimerFires(r)

\* stateless requests, with and without attachment, one at a time
GenNext ==
  \/ \E r \in Requests, c \in StatelessCopies, promptText \in GenPrompts,
        file \in Files :
       Quiet /\ HandleContentGeneration(r, c, promptText, file)
  \/ GenSettleNext
  \/ GenRetryTimerFires

\* requests to both endpoints that reach generateContent (a prompt, a
\* session that was started, no attachment), one at a time
UpstreamNext ==
  \/ StartChatSession
  \/ \E r \in Requests, sid \in SessionIds :
       Quiet /\ HandleSendMessage(r, TRUE, sid, FALSE, FALSE)
  \/ SettleNext
  \/ \E r \in Requests : RetryTimerFires(r)
  \/ \E r \in Requests, c \in StatelessCopies,
        promptText \in GenPrompts \ {<<>>} :
       Quiet /\ HandleContentGeneration(r, c, promptText, "none")
  \/ GenSettleNext
  \/ GenRetryTimerFires

-----------------------------------------------------------------------------
(* generateImage and handleImageGeneration                                   *)

\* a part of the response: { text } or { inlineData: { data } }
TextPart == [kind |-> "text", data |-> ""]
InlineData(data) == [kind |-> "inlineData", data |-> data]

\* what find returns when no part has inlineData, and what the optional
\* chain yields when the response has no candidates, content or parts
NoPart == [kind |-> "undefined", data |-> ""]

Base64 == "iVBORw0KGgo="

\* response.candidates?.[0]?.content?.parts of the responses explored; <<>>
\* also stands for a response without candidates
ImageResponses ==
  {<<>>,
   <<TextPart>>,
   <<InlineData("")>>,
   <<TextPart, InlineData(Base64)>>,
   <<InlineData(""), InlineData(Base64)>>}

\* parts?.find((p) => p.inlineData)
Find(parts) ==
  IF \E i \in 1 .. Len(parts) : parts[i].kind = "inlineData"
    THEN parts[CHOOSE i \in 1 .. Len(parts) :
                 /\ parts[i].kind = "inlineData"
                 /\ \A j \in 1 .. (i - 1) : parts[j].kind # "inlineData"]
    ELSE NoPart

\* a test that takes any part with inlineData
ValidImage_AnyPart(imagePart) == imagePart # NoPart

\* if (imagePart && imagePart.inlineData.data)
ValidImage(imagePart) == imagePart # NoPart /\ imagePart.data # ""

\* catch (error) { console.error(...); throw new Error("Failed to generate
\* image from the AI model."); }
RethrowImage(cause) == "Failed to generate image from the AI model."

IdleImage ==
  [r |-> 0, pc |-> "idle", copy |-> "content", attempt |-> 0, calls |-> 0,
   parts |-> <<>>, result |-> "none", imageData |-> "", cause |-> "none"]

\* the image request has ended with the response `result`
ImageEnded(g, result) == [g EXCEPT !.pc = "done", !.result = result]

\* handleImageGeneration receives request r with the prompt promptText and
\* runs, through generateImage of copy c and withRetry, up to the first
\* await of generateContent.
HandleImageGeneration(r, c, promptText) ==
  /\ req[r].pc = "new"
  /\ r > 1 => req[r - 1].pc # "new"
  /\ req' = [req EXCEPT ![r] = Ended(req[r], "image")]
  /\ LET g == [IdleImage EXCEPT !.r = r, !.copy = c]
     IN IF promptText = <<>>
          THEN \* res.status(400): generateImage is not called
               img' = ImageEnded(g, "BadRequest")
          ELSE img' = [g EXCEPT !.pc = "await", !.calls = 1]
  /\ UNCHANGED <<gen, failures, chatHistories, startLog, uploads, wrVars,
                 classVars>>

\* generateContent settles for the image request; the rest of withRetry's
\* loop body and of generateImage runs up to the next await or the end of
\* the request.
ImageSettles(outcome, parts) ==
  /\ img.pc = "await"
  /\ IF outcome = OK
       THEN LET imagePart == Find(parts)
                g == [img EXCEPT !.parts = parts]
            IN IF ValidImage(imagePart)
                 THEN \* return imagePart.inlineData.data
                      img' = ImageEnded(
                               [g EXCEPT !.imageData = imagePart.data], "ok")
                 ELSE \* throw new Error("The AI model did not return a
                      \* valid image."), caught and replaced
                      img' = ImageEnded([g EXCEPT !.cause = "NoImage"],
                                        RethrowImage("NoImage"))
       ELSE IF IsRetryable(img.copy, outcome)
         THEN IF IsLastAttempt(img.attempt, DefaultMaxRetries)
           THEN img' = ImageEnded([img EXCEPT !.cause = "RetriesExhausted"],
                                  RethrowImage("RetriesExhausted"))
           ELSE img' = [img EXCEPT !.pc = "sleep"]
         ELSE img' = ImageEnded([img EXCEPT !.cause = "UpstreamFailure"],
                                RethrowImage("UpstreamFailure"))
  /\ UNCHANGED <<gen, failures, chatVars, wrVars, classVars>>

\* the retry timer of the image request fires: attempt++ and
\* generateContent is invoked again
ImageRetryTimerFires ==
  /\ img.pc = "sleep"
  /\ img' = [img EXCEPT !.pc = "await", !.attempt = @ + 1, !.calls = @ + 1]
  /\ UNCHANGED <<gen, failures, chatVars, wrVars, classVars>>

ImageInit == img = IdleImage

\* the prompts of the image requests: none, or a prompt
ImagePrompts == {<<>>, Words[7]}

\* the upstream outcomes with which a text request ends at once
Immediate == {OK, 500}

\* requests to the three routes, with and without the fields the
\* controllers require, one at a time; the upstream calls of the two text
\* routes end at once, those of the image route are retried
RoutesNext ==
  \/ StartChatSession
  \/ \E r \in Requests, hasPrompt \in BOOLEAN, sid \in SessionIdArgs :
       Quiet /\ HandleSendMessage(r, hasPrompt, sid, FALSE, FALSE)
  \/ \E r \in Requests, outcome \in Immediate :
       GenerateContentSettles(r, outcome, GeneralText)
  \/ \E r \in Requests, c \in StatelessCopies, promptText \in GenPrompts :
       Quiet /\ HandleContentGeneration(r, c, promptText, "none")
  \/ \E outcome \in Immediate : GenSettles(outcome, GeneralText)
  \/ \E r \in Requests, c \in Copies, promptText \in ImagePrompts :
       Quiet /\ HandleImageGeneration(r, c, promptText)
  \/ \E outcome \in {OK} \cup ErrorStatuses, parts \in ImageResponses :
       ImageSettles(outcome, parts)
  \/ ImageRetryTimerFires

\* requests with a prompt to /send-message, on a session that was started,
\* and to /generate-content, with and without an attachment that may be
\* missing at read time, one at a time; the upstream calls end at once
FilesNext ==
  \/ StartChatSession
  \/ \E r \in Requests, sid \in SessionIds, hasFile \in BOOLEAN,
        staged \in BOOLEAN :
       Quiet /\ HandleSendMessage(r, TRUE, sid, hasFile, staged)
  \/ \E r \in Requests, outcome \in Immediate :
       GenerateContentSettles(r, outcome, GeneralText)
  \/ \E r \in Requests, c \in StatelessCopies,
        promptText \in GenPrompts \ {<<>>}, file \in Files :
       Quiet /\ HandleContentGeneration(r, c, promptText, file)
  \/ \E outcome \in Immediate : GenSettles(outcome, GeneralText)

-----------------------------------------------------------------------------
(* The switch of generateStructuredContent: schema and, for a quiz, the     *)
(* question count taken from the prompt by /(\d+)\s*question/i              *)

\* \d
Digits == <<"0", "1", "2", "3", "4", "5", "6", "7", "8", "9">>
IsDigit(ch) == \E d \in 1 .. Len(Digits) : Digits[d] = ch
DigitValue(ch) == (CHOOSE d \in 1 .. Len(Digits) : Digits[d] = ch) - 1

\* \s, of which the prompts of the model hold the blank
IsSpace(ch) == ch = " "

\* the literal of the pattern
ReQuestion == <<"q", "u", "e", "s", "t", "i", "o", "n">>

\* the literal matches at index `from`, under the flag i
LiteralAt(str, literal, from) ==
  /\ from + Len(literal) - 1 <= Len(str)
  /\ \A j \in 1 .. Len(literal) : ToLowerChar(str[from + j - 1]) = literal[j]

\* (\d+)\s*question matches at index i with d digits and w blanks
MatchesAt(str, i, d, w) ==
  /\ d >= 1
  /\ i + d + w - 1 <= Len(str)
  /\ \A k \in i .. (i + d - 1) : IsDigit(str[k])
  /\ \A k \in (i + d) .. (i + d + w - 1) : IsSpace(str[k])
  /\ LiteralAt(str, ReQuestion, i + d + w)

\* the indexes at which the pattern matches
MatchStarts(str) ==
  {i \in 1 .. Len(str) :
     \E d \in 1 .. Len(str), w \in 0 .. Len(str) : MatchesAt(str, i, d, w)}

Min(S) == CHOOSE x \in S : \A y \in S : x <= y
Max(S) == CHOOSE x \in S : \A y \in S : x >= y

\* prompt.match(/(\d+)\s*question/i): match[1] of the leftmost match, the
\* quantifier \d+ taking as many digits as it can; <<>> stands for null
Match1(str) ==
  IF MatchStarts(str) = {} THEN <<>>
  ELSE LET i == Min(MatchStarts(str))
           d == Max({n \in 1 .. Len(str) :
                       \E w \in 0 .. Len(str) : MatchesAt(str, i, n, w)})
       IN SubSeq(str, i, i + d - 1)

\* parseInt(digits), for a string of decimal digits
RECURSIVE ParseInt(_)
ParseInt(digits) ==
  IF Len(digits) = 0 THEN 0
  ELSE 10 * ParseInt(SubSeq(digits, 1, Len(digits) - 1))
         + DigitValue(digits[Len(digits)])

\* match ? parseInt(match[1]) : 20
QuestionCount(str) ==
  IF Match1(str) = <<>> THEN DefaultQuestionCount ELSE ParseInt(Match1(str))

\* the words the prompts of a quiz request are made of
QuizWords ==
  << <<"q", "u", "i", "z">>,
     <<"1", "5">>,
     <<"7">>,
     <<"Q", "U", "E", "S", "T", "I", "O", "N", "S">>,
     <<"5", "q", "u", "e", "s", "t", "i", "o", "n">>,
     <<"q", "u", "e", "s", "t", "i", "o", "n", "n", "a", "i", "r", "e", "s">>,
     <<"e", "s", "s", "a", "y">> >>

RECURSIVE QuizPromptsOf(_)
QuizPromptsOf(n) ==
  IF n = 0 THEN {<<>>}
  ELSE IF n = 1 THEN {QuizWords[w] : w \in 1 .. Len(QuizWords)}
  ELSE {p \o Space \o QuizWords[w] :
          p \in QuizPromptsOf(n - 1), w \in 1 .. Len(QuizWords)}

QuizPrompts == UNION {QuizPromptsOf(n) : n \in 0 .. MaxWords}

\* before the switch has run
NotSelected ==
  [contentType |-> Unset, schema |-> [type |-> Unset], questionCount |-> -1]

\* const contentType = detectContentType(prompt); switch (contentType):
\* copy c selects the schema and, in case "quiz", computes questionCount
SelectSchema(c) ==
  /\ selected[c] = NotSelected
  /\ LET contentType == Detect(c, prompt)
     IN selected' = [selected EXCEPT ![c] =
          [contentType |-> contentType,
           schema |-> SchemaFor(c, contentType),
           questionCount |-> IF contentType = "quiz"
                               THEN QuestionCount(prompt) ELSE -1]]
  /\ UNCHANGED <<prompt, detected, wrVars, chatVars, genVars>>

SelectIdle == selected = [c \in StatelessCopies |-> NotSelected]

QuizInit ==
  /\ prompt \in QuizPrompts
  /\ detected = [c \in Copies |-> Unset]
  /\ SelectIdle

QuizNext == \E c \in StatelessCopies : SelectSchema(c)

-----------------------------------------------------------------------------
Init == WrInit /\ ChatInit /\ GenInit /\ ImageInit /\ ClassifyIdle /\ SelectIdle

\* one prompt, classified by each copy of detectContentType
InitClassify ==
  WrInit /\ ChatInit /\ GenInit /\ ImageInit /\ ClassifyInit /\ SelectIdle

\* one prompt of a quiz request, handed to the switch of each stateless copy
InitQuiz == WrInit /\ ChatInit /\ GenInit /\ ImageInit /\ QuizInit

\* one call of withRetry, with any arguments
SpecRetry == Init /\ [][WrNext]_vars

\* the chat service under concurrent requests
Spec == Init /\ [][ChatNext]_vars

\* the chat service with attachments, its requests one after the other
SpecAttach == Init /\ [][AttachNext]_vars

\* the stateless path: generateStructuredContent in both copies
SpecGenerate == Init /\ [][GenNext]_vars

\* both paths, for requests that reach the upstream API
SpecUpstream == Init /\ [][UpstreamNext]_vars

\* the classifiers, applied to every prompt of up to MaxWords words
SpecClassify == InitClassify /\ [][ClassifyNext]_vars

\* schema selection and question count, on every prompt of up to MaxWords
\* words of QuizWords
SpecQuiz == InitQuiz /\ [][QuizNext]_vars

\* the three routes and their controllers
SpecRoutes == Init /\ [][RoutesNext]_vars

\* the two text routes with attachments
SpecFiles == Init /\ [][FilesNext]_vars

-----------------------------------------------------------------------------
(* Properties of withRetry, checked under SpecRetry *)

\* transient as the specification defines it: rate limit or unavailable
Transient(status) == status = 429 \/ status = 503

RECURSIVE SumSeq(_)
SumSeq(s) == IF s = <<>> THEN 0 ELSE s[1] + SumSeq(Tail(s))

\* the invocations of apiCallFn before the last one
Earlier == 1 .. (Len(apiCalls) - 1)

\* C1: in the copies of services/geminiService.js, with maxRetries = N >= 1,
\* when the first k invocations (k < N) failed with a transient error and
\* invocation k+1 succeeded, withRetry has returned the value of invocation
\* k+1, apiCallFn was invoked exactly k+1 times and exactly k retry warnings
\* (and k delays) were produced.
C1_SuccessAfterTransientFailures ==
  ( /\ wrPc # "idle"
    /\ copy \in ServiceCopies
    /\ maxRetries >= 1
    /\ apiCalls # <<>>
    /\ Last(apiCalls) = OK
    /\ \A i \in Earlier : Transient(apiCalls[i]) )
  => /\ wrPc = "returned"
     /\ wrResult = Value(Len(apiCalls))
     /\ Len(apiCalls) <= maxRetries
     /\ Len(warnings) = Len(apiCalls) - 1
     /\ Len(delays) = Len(apiCalls) - 1

\* the default policy: 4 transient failures, then success, 4 warnings
C1_Witness ==
  /\ copy \in ServiceCopies
  /\ maxRetries = DefaultMaxRetries
  /\ initialDelay = DefaultInitialDelay
  /\ Len(apiCalls) = 5
  /\ \A i \in 1 .. 4 : Transient(apiCalls[i])
  /\ apiCalls[1] # apiCalls[2]
  /\ apiCalls[5] = OK
  /\ wrPc = "returned"
  /\ wrResult = Value(5)
  /\ Len(warnings) = 4

\* C2: in every copy, with maxRetries = N >= 1, as long as every invocation
\* failed with a transient error withRetry keeps retrying up to N invocations,
\* and after the N-th failure it has thrown the N-th error with no delay
\* after it.
C2_ExhaustedRetriesRaise ==
  ( /\ wrPc # "idle"
    /\ maxRetries >= 1
    /\ apiCalls # <<>>
    /\ \A i \in 1 .. Len(apiCalls) : Transient(apiCalls[i]) )
  => /\ Len(apiCalls) <= maxRetries
     /\ Len(apiCalls) < maxRetries => wrPc = "sleep"
     /\ Len(apiCalls) = maxRetries =>
          /\ wrPc = "thrown"
          /\ wrResult = Error(maxRetries, Last(apiCalls))
          /\ Len(delays) = maxRetries - 1

\* C3: in every copy, a non-transient failure of any invocation is the last
\* invocation: withRetry has thrown that error, and the only warnings and
\* delays are those of the transient failures before it.
C3_PermanentFailureRaisesAtOnce ==
  \A i \in 1 .. Len(apiCalls) :
    (apiCalls[i] \in ErrorStatuses /\ ~Transient(apiCalls[i]))
    => /\ i = Len(apiCalls)
       /\ wrPc = "thrown"
       /\ wrResult = Error(i, apiCalls[i])
       /\ Len(warnings) = i - 1
       /\ Len(delays) = i - 1
       /\ errorLog = 0

\* a permanent failure on a later attempt, after two retried ones
C3_Witness ==
  /\ Len(apiCalls) = 3
  /\ Transient(apiCalls[1]) /\ Transient(apiCalls[2])
  /\ apiCalls[3] = 500
  /\ maxRetries = DefaultMaxRetries
  /\ wrPc = "thrown"
  /\ Len(warnings) = 2

\* C4: every copy retries a 429 and a 503 failure while attempts remain.
C4_EveryCopyRetries429And503 ==
  \A c \in Copies :
    ( /\ copy = c
      /\ wrPc # "idle"
      /\ apiCalls # <<>>
      /\ Transient(Last(apiCalls))
      /\ Len(apiCalls) < maxRetries )
    => wrPc = "sleep"

\* C5 as stated: the delay before attempt k (0-indexed, k >= 1) lies in
\* [initialDelay * 2^k, initialDelay * 2^k + 1000).
C5_DelayBeforeAttemptK ==
  \A k \in 1 .. Len(delays) :
    /\ delays[k] >= initialDelay * (2 ^ k)
    /\ delays[k] < initialDelay * (2 ^ k) + JitterRange

\* C5 amended: the delay before attempt k (0-indexed, k >= 1), taken after
\* the failure of attempt k-1, lies in
\* [initialDelay * 2^(k-1), initialDelay * 2^(k-1) + 1000); with the default
\* policy a call waits less than 34 seconds in all.
C5_DelayAfterAttemptK ==
  /\ \A k \in 1 .. Len(delays) :
       /\ delays[k] >= initialDelay * (2 ^ (k - 1))
       /\ delays[k] < initialDelay * (2 ^ (k - 1)) + JitterRange
  /\ (maxRetries = DefaultMaxRetries /\ initialDelay = DefaultInitialDelay)
       => SumSeq(delays) < 34000

\* the default policy after its fourth and last delay
C5_Witness ==
  /\ maxRetries = DefaultMaxRetries
  /\ initialDelay = DefaultInitialDelay
  /\ Len(delays) = 4
  /\ delays[4] >= 16000
  /\ SumSeq(delays) > 30000

-----------------------------------------------------------------------------
(* Properties of the session store, checked under Spec *)

\* the turns of request r in history h, in order
TurnsOf(h, r) == SelectSeq(h, LAMBDA t : t.req = r)

IsPrefix(s, t) == Len(s) <= Len(t) /\ SubSeq(t, 1, Len(s)) = s

\* user, model, user, model, ... from the first turn on
Alternates(h) ==
  \A i \in 1 .. Len(h) :
    h[i].role = IF i % 2 = 1 THEN "user" ELSE "model"

\* C6: in every reachable state every session's history is empty or strictly
\* alternates user, model, user, model, ... starting with a user turn.
C6_HistoryAlternates ==
  \A s \in DOMAIN chatHistories : Alternates(chatHistories[s])

\* C7: a sendMessage call that has succeeded has appended exactly two turns
\* to its session, its user turn and after it a model turn holding the raw
\* response text; no call appends any other turn; and the transcript a call
\* sends upstream holds every turn the session had at the lookup, in order,
\* followed by the call's user turn (and nothing else on its first attempt).
C7_ExchangeAppendsTwoTurns ==
  \A r \in Requests :
    LET q == req[r]
        mine == UserTurn(r, q.hasFile)
    IN /\ (q.pc = "done" /\ q.result = "ok") =>
            TurnsOf(chatHistories[q.sid], r) = <<mine, ModelTurn(r, q.text)>>
       /\ \A s \in DOMAIN chatHistories :
            \/ TurnsOf(chatHistories[s], r) = <<>>
            \/ /\ q.sid = s
               /\ \/ TurnsOf(chatHistories[s], r) = <<mine>>
                  \/ /\ q.result = "ok"
                     /\ TurnsOf(chatHistories[s], r) =
                          <<mine, ModelTurn(r, q.text)>>
       /\ q.pc = "await" =>
            /\ IsPrefix(Append(q.snap, mine), q.sent)
            /\ q.attempt = 0 => q.sent = Append(q.snap, mine)

\* the second call on a session sends the first exchange and its own turn
C7_Witness ==
  /\ req[1].pc = "done" /\ req[1].result = "ok"
  /\ req[1].text = "{ \"title\": 1 }"
  /\ req[2].pc = "await" /\ req[2].sid = req[1].sid
  /\ req[2].sent = <<UserTurn(1, FALSE), ModelTurn(1, "{ \"title\": 1 }"),
                     UserTurn(2, FALSE)>>

\* C8: a call of startChatSession returns an identifier the store did not
\* hold, leaves the history of every session the store held as it was, and
\* the store then holds an empty history for the new identifier.
C8_StartChatSessionFresh ==
  [][Len(startLog') = Len(startLog) + 1 =>
       LET id == Last(startLog').id
       IN /\ id \notin DOMAIN chatHistories
          /\ \A s \in DOMAIN chatHistories :
               s \in DOMAIN chatHistories' /\ chatHistories'[s] = chatHistories[s]
          /\ id \in DOMAIN chatHistories'
          /\ chatHistories'[id] = <<>>]_vars

\* a session was started while another one held turns, which it still holds
C8_Witness ==
  /\ Len(startLog) = 2
  /\ startLog[2].busy
  /\ chatHistories[startLog[2].id] = <<>>
  /\ chatHistories[startLog[1].id] # <<>>

\* C9: a sendMessage call whose identifier no startChatSession call has
\* returned fails with the unknown-session error, invokes generateContent
\* not once and changes no history.
C9_UnknownSessionRejected ==
  [][\A r \in Requests :
       ( /\ req[r].pc = "new"
         /\ req'[r].pc # "new"
         /\ req'[r].result # "BadRequest"
         /\ \A i \in 1 .. Len(startLog) : startLog[i].id # req'[r].sid )
       => /\ req'[r].pc = "done"
          /\ req'[r].result = "InvalidSession"
          /\ req'[r].calls = 0
          /\ chatHistories' = chatHistories]_vars

\* C10: the user turn of every sendMessage call that has succeeded is
\* immediately followed by the model turn of the same call.
C10_ExchangesNotInterleaved ==
  \A r \in Requests :
    (req[r].pc = "done" /\ req[r].result = "ok") =>
      LET h == chatHistories[req[r].sid]
      IN \E i \in 1 .. (Len(h) - 1) :
           /\ h[i] = UserTurn(r, req[r].hasFile)
           /\ h[i + 1] = ModelTurn(r, req[r].text)

\* C11: sessions are isolated.  A step of a sendMessage call changes no
\* history but the one of the call's own session, whatever the outcome of
\* the call and whatever other calls are in flight; every history holds only
\* turns of calls on that session; and the transcript a call has sent
\* upstream holds only turns of calls on the call's session.
C11_SessionsIsolated ==
  [][/\ \A s \in DOMAIN chatHistories :
          chatHistories'[s] # chatHistories[s] =>
            \E r \in Requests : /\ req'[r] # req[r]
                                /\ req'[r].sid = s
                                /\ \A o \in Requests \ {r} : req'[o] = req[o]
     /\ \A s \in DOMAIN chatHistories' :
          \A i \in 1 .. Len(chatHistories'[s]) :
            req'[chatHistories'[s][i].req].sid = s
     /\ \A r \in Requests :
          \A i \in 1 .. Len(req'[r].sent) :
            req'[req'[r].sent[i].req].sid = req'[r].sid]_vars

\* calls on two sessions are in flight together, each after a retry, and
\* each has sent the one turn of its own session
C11_Witness ==
  /\ req[1].pc = "await" /\ req[2].pc = "await"
  /\ req[1].sid # req[2].sid
  /\ req[1].attempt >= 1 /\ req[2].attempt >= 1
  /\ req[1].sent = <<UserTurn(1, FALSE)>>
  /\ req[2].sent = <<UserTurn(2, FALSE)>>
  /\ chatHistories[req[1].sid] = <<UserTurn(1, FALSE)>>
  /\ chatHistories[req[2].sid] = <<UserTurn(2, FALSE)>>

-----------------------------------------------------------------------------
(* Properties of the stateless path, checked under SpecGenerate *)

\* C12: once generateStructuredContent has been called with an attachment
\* whose staged file existed and was read, the staged file exists no more:
\* neither while the upstream call or a retry delay is pending, nor after
\* the call has ended, be it with a result, with a permanent upstream
\* failure, with exhausted retries or with an unparsable response.
C12_StagedFileRemoved ==
  ( /\ gen.pc \in {"await", "sleep", "done"}
    /\ gen.result # "BadRequest"
    /\ gen.file = "staged" )
  => gen.r \notin uploads

\* a call with an attachment has ended after its fifth transient failure
C12_Witness ==
  /\ gen.pc = "done"
  /\ gen.file = "staged"
  /\ gen.cause = "RetriesExhausted"
  /\ gen.calls = DefaultMaxRetries
  /\ gen.r \notin uploads

-----------------------------------------------------------------------------
(* Properties of attachments on the chat path, checked under SpecAttach *)

\* C13: once a request has completed, by whatever outcome (a result, a
\* failure, the rejection of a missing prompt or sessionId, the unknown
\* session error), the file that was staged for it exists no more.
C13_StagedFileNeverOutlivesRequest ==
  \A r \in Requests : req[r].pc = "done" => r \notin uploads

\* C14: the transcript a request sends upstream holds no attachment data but
\* that of the request's own attachment.
C14_AttachmentInOneRequestOnly ==
  \A r \in Requests :
    \A i \in 1 .. Len(req[r].sent) :
      req[r].sent[i].data => req[r].sent[i].req = r

-----------------------------------------------------------------------------
(* Properties of results and failures on both paths *)

\* value v is of the schema's type; an object has every required property
\* and its properties fit their schemas; the items of an array fit the
\* item schema
RECURSIVE Conforms(_, _)
Conforms(schema, v) ==
  /\ v.type = schema.type
  /\ schema.type = "OBJECT" =>
       /\ schema.required \subseteq DOMAIN v.properties
       /\ \A n \in DOMAIN v.properties \cap DOMAIN schema.properties :
            Conforms(schema.properties[n], v.properties[n])
  /\ schema.type = "ARRAY" =>
       \A i \in 1 .. Len(v.items) : Conforms(schema.items, v.items[i])

\* the prompt of every sendMessage call of the model
ChatPrompt == <<"p", "r", "o", "m", "p", "t">>

\* C15: the value a successful generateStructuredContent or sendMessage call
\* has returned conforms to the schema selected for the request's label.
C15_ResultConformsToSchema ==
  /\ (gen.pc = "done" /\ gen.result = "ok") =>
       Conforms(SchemaFor(gen.copy, gen.label), JsonParse(gen.text))
  /\ \A r \in Requests :
       (req[r].pc = "done" /\ req[r].result = "ok") =>
         Conforms(SchemaFor("chat", DetectContentTypeChat(ChatPrompt)),
                  JsonParse(req[r].text))

\* the response text of the model that is not JSON
NotJson == "not json"

\* C16: a request whose upstream call returned a text that is not JSON has
\* ended in an error at once, in generateStructuredContent and in
\* sendMessage: it is not waiting for a retry or for another upstream call,
\* it has made one upstream call for each transient failure before the
\* response and one for the response (exactly one when the first call
\* succeeded), and sendMessage has appended no model turn.
C16_ParseFailureIsTerminal ==
  /\ gen.text = NotJson =>
       /\ gen.pc = "done"
       /\ gen.result = Rethrow("SyntaxError")
       /\ gen.calls = gen.attempt + 1
  /\ \A r \in Requests :
       req[r].text = NotJson =>
         /\ req[r].pc = "done"
         /\ req[r].result = "Failed"
         /\ req[r].calls = req[r].attempt + 1
         /\ \A i \in 1 .. Len(chatHistories[req[r].sid]) :
              chatHistories[req[r].sid][i] # ModelTurn(r, NotJson)

\* a sendMessage call and then a generateStructuredContent call got a text
\* that is not JSON from their first upstream call
C16_Witness ==
  /\ req[1].pc = "done" /\ req[1].text = NotJson
  /\ req[1].calls = 1 /\ req[1].result = "Failed"
  /\ gen.r = 2 /\ gen.pc = "done" /\ gen.text = NotJson
  /\ gen.calls = 1 /\ gen.cause = "SyntaxError"

\* C17: the errors callers of generateStructuredContent have got for
\* failures of different kinds (exhausted retries, a permanent upstream
\* failure, a missing attachment, malformed model output) differ from one
\* another, and for a response that is not JSON the caller has got the
\* parse error itself.
C17_ErrorKindsPreserved ==
  /\ \A f \in failures, g \in failures :
       f.cause # g.cause => f.error # g.error
  /\ \A f \in failures :
       f.cause = "SyntaxError" => f.error = "SyntaxError"

-----------------------------------------------------------------------------
(* Properties of detectContentType, checked under SpecClassify *)

\* characters a and b are the same letter, in whatever case
SameLetter(a, b) ==
  \/ a = b
  \/ \E i \in 1 .. Len(UpperCase) : {a, b} = {UpperCase[i], LowerCase[i]}

\* keyword occurs in str as a substring, whatever the case of its letters
Occurs(keyword, str) ==
  \E off \in 0 .. (Len(str) - Len(keyword)) :
    \A j \in 1 .. Len(keyword) : SameLetter(str[off + j], keyword[j])

\* the keyword groups as the claims give them: label, keywords, priority
\* number
StatelessGroups ==
  { [name |-> "lessonPlan", keywords |-> {KwLessonPlan}, rank |-> 1],
    [name |-> "assignment", keywords |-> {KwAssignment}, rank |-> 2],
    [name |-> "quiz", keywords |-> {KwQuiz, KwQuizzes}, rank |-> 2],
    [name |-> "lecture", keywords |-> {KwLecture}, rank |-> 3] }

ChatGroups ==
  { [name |-> "presentation",
     keywords |-> {KwPpt, KwPresentation, KwPowerpoint, KwSlides},
     rank |-> 1],
    [name |-> "document",
     keywords |-> {KwPdf, KwDocx, KwDocument, KwReport}, rank |-> 2] }

\* the groups of which the prompt holds a keyword
Matched(groups) ==
  {g \in groups : \E k \in g.keywords : Occurs(k, prompt)}

\* C18: in both stateless copies, detectContentType returns "default" for a
\* prompt that holds none of lesson plan, assignment, quiz, quizzes, lecture
\* (as substrings, in whatever case), and a label other than "default" for
\* a prompt that holds one of them.
C18_DefaultIffNoKeyword ==
  \A c \in StatelessCopies :
    detected[c] # Unset =>
      (detected[c] = "default" <=> Matched(StatelessGroups) = {})

\* "essay QUIZZES plan": a keyword in capitals between other words
C18_Witness ==
  /\ prompt = Words[9] \o Space \o Words[5] \o Space \o Words[2]
  /\ detected["content"] = "quiz"
  /\ detected["chatbot"] = "quiz"
  /\ ~Includes(prompt, KwQuiz)

\* C19: for a prompt that holds keywords of groups with different priority
\* numbers, detectContentType (of the stateless and of the chat half of
\* services/geminiService.js) returns the label of a group the prompt
\* matches whose priority number is the lowest among the matched groups,
\* wherever the keywords stand in the prompt.
C19_LowestPriorityNumberWins ==
  /\ detected["content"] # Unset =>
       LET matched == Matched(StatelessGroups)
       IN (\E a \in matched, b \in matched : a.rank # b.rank) =>
            \E g \in matched : /\ detected["content"] = g.name
                               /\ \A h \in matched : g.rank <= h.rank
  /\ detected["chat"] # Unset =>
       LET matched == Matched(ChatGroups)
       IN (\E a \in matched, b \in matched : a.rank # b.rank) =>
            \E g \in matched : /\ detected["chat"] = g.name
                               /\ \A h \in matched : g.rank <= h.rank

\* "lectures Assignment PDF": assignment (2) stands after lecture (3)
C19_Witness ==
  /\ prompt = Words[6] \o Space \o Words[3] \o Space \o Words[8]
  /\ Cardinality(Matched(StatelessGroups)) = 2
  /\ detected["content"] = "assignment"
  /\ detected["chat"] = "document"

\* C20: for a prompt that holds assignment and quiz (or quizzes) and not
\* lesson plan, detectContentType of services/geminiService.js returns
\* "assignment", the group declared first, wherever the keywords stand.
C20_TieGoesToFirstDeclared ==
  ( /\ detected["content"] # Unset
    /\ Occurs(KwAssignment, prompt)
    /\ Occurs(KwQuiz, prompt) \/ Occurs(KwQuizzes, prompt)
    /\ ~Occurs(KwLessonPlan, prompt) )
  => detected["content"] = "assignment"

\* "QUIZZES lectures Assignment": the quiz keyword stands first
C20_Witness ==
  /\ prompt = Words[5] \o Space \o Words[6] \o Space \o Words[3]
  /\ detected["content"] = "assignment"

-----------------------------------------------------------------------------
(* Properties of the quiz question count, checked under SpecQuiz *)

IsLetter(ch) ==
  \E i \in 1 .. Len(UpperCase) : ch \in {UpperCase[i], LowerCase[i]}

\* the word stands in str from index `from` on, in whatever case, and ends
\* there: no letter or digit follows it
WordAt(word, str, from) ==
  /\ from + Len(word) - 1 <= Len(str)
  /\ \A j \in 1 .. Len(word) : SameLetter(str[from + j - 1], word[j])
  /\ from + Len(word) <= Len(str) =>
       /\ ~IsLetter(str[from + Len(word)])
       /\ ~IsDigit(str[from + Len(word)])

\* str[a .. b] is an integer (a run of digits that goes no further on either
\* side) and, after blanks or none, the word question or questions follows
IntegerBeforeQuestion(str, a, b) ==
  /\ a <= b
  /\ \A k \in a .. b : IsDigit(str[k])
  /\ a > 1 => ~IsDigit(str[a - 1])
  /\ b < Len(str) => ~IsDigit(str[b + 1])
  /\ \E w \in 0 .. Len(str) :
       /\ \A k \in (b + 1) .. (b + w) : k <= Len(str) /\ str[k] = " "
       /\ \/ WordAt(ReQuestion, str, b + w + 1)
          \/ WordAt(ReQuestion \o <<"s">>, str, b + w + 1)

\* the count the claim gives for a quiz prompt
ClaimedCount(str) ==
  LET starts == {a \in 1 .. Len(str) :
                   \E b \in a .. Len(str) : IntegerBeforeQuestion(str, a, b)}
  IN IF starts = {} THEN 20
     ELSE LET a == Min(starts)
              b == CHOOSE e \in a .. Len(str) :
                     IntegerBeforeQuestion(str, a, e)
          IN ParseInt(SubSeq(str, a, b))

\* C21: for a prompt classified as quiz, in both stateless copies, the
\* question count is the first integer that immediately precedes the word
\* question or questions (in whatever case, blanks between or none), and 20
\* when the prompt has no such integer; the schema selected is QuizSchema.
C21_QuestionCountFromPrompt ==
  \A c \in StatelessCopies :
    selected[c].contentType = "quiz" =>
      /\ selected[c].questionCount = ClaimedCount(prompt)
      /\ selected[c].schema = QuizSchema

-----------------------------------------------------------------------------
\* no upstream call is in flight
NoneInFlight ==
  /\ \A r \in Requests : req[r].pc \notin {"await", "sleep"}
  /\ gen.pc \notin {"await", "sleep"}
  /\ img.pc \notin {"await", "sleep"}

\* C22: a request without a prompt, on any of the three routes, and a
\* request to /send-message without a session id, is answered by the
\* controller as a caller error (400) before the core is invoked: the step
\* that handles it makes no upstream call, records no failure of the core
\* and leaves every session's history as it was.
C22_RejectedBeforeCore ==
  [][/\ \A r \in Requests, hasPrompt \in BOOLEAN, sid \in SessionIdArgs :
          (HandleSendMessage(r, hasPrompt, sid, FALSE, FALSE)
             /\ (~hasPrompt \/ sid = ""))
          => /\ req'[r].result = "BadRequest"
             /\ req'[r].calls = 0
             /\ NoneInFlight'
             /\ chatHistories' = chatHistories
     /\ \A r \in Requests, c \in StatelessCopies :
          HandleContentGeneration(r, c, <<>>, "none")
          => /\ gen'.result = "BadRequest"
             /\ gen'.calls = 0
             /\ failures' = failures
             /\ NoneInFlight'
             /\ chatHistories' = chatHistories
     /\ \A r \in Requests, c \in Copies :
          HandleImageGeneration(r, c, <<>>)
          => /\ img'.result = "BadRequest"
             /\ img'.calls = 0
             /\ NoneInFlight'
             /\ chatHistories' = chatHistories]_vars

\* a session holds an exchange, and the next request to /send-message was
\* rejected by the controller
C22_Witness ==
  /\ \E s \in DOMAIN chatHistories : Len(chatHistories[s]) = 2
  /\ req[1].result = "ok"
  /\ req[2].result = "BadRequest"
  /\ req[2].calls = 0

-----------------------------------------------------------------------------
\* the response carries an inline binary part with data
CarriesImage(parts) ==
  \E i \in 1 .. Len(parts) :
    parts[i].kind = "inlineData" /\ parts[i].data # ""

\* C23: generateImage is a stateless pass-through: no step of an image
\* request changes a session's history or the set of sessions, and a call
\* that returns normally returns the non-empty data of an inline part of
\* the response; when the response carries no inline part with data the
\* call fails with an error, never with an empty or default value.
C23_ImagePassThrough ==
  [][/\ img' # img =>
          /\ chatHistories' = chatHistories
          /\ startLog' = startLog
     /\ img'.result = "ok" =>
          /\ CarriesImage(img'.parts)
          /\ img'.imageData # ""
     /\ (img'.pc = "done" /\ img'.result # "BadRequest"
           /\ ~CarriesImage(img'.parts)) =>
          /\ img'.result = RethrowImage(img'.cause)
          /\ img'.cause # "none"
          /\ img'.imageData = ""]_vars

\* a session holds an exchange, and an image request whose response held an
\* inline part without data has failed
C23_Witness ==
  /\ \E s \in DOMAIN chatHistories : Len(chatHistories[s]) = 2
  /\ img.pc = "done"
  /\ img.parts = <<InlineData("")>>
  /\ img.cause = "NoImage"
  /\ img.result = RethrowImage("NoImage")

-----------------------------------------------------------------------------
\* C24: a sendMessage call that fails after the session lookup (permanent
\* upstream failure, exhausted retries, malformed model output, missing
\* attachment) leaves the session's history as it was before the call: the
\* history of a session holds no turn of a request that has failed.
C24_FailedCallLeavesHistory ==
  \A r \in Requests :
    (req[r].pc = "done" /\ req[r].result = "Failed"
       /\ req[r].sid \in DOMAIN chatHistories)
    => TurnsOf(chatHistories[req[r].sid], r) = <<>>

-----------------------------------------------------------------------------
\* C25: when a request names an attachment whose staged file does not exist
\* at read time, generateStructuredContent and sendMessage fail at once:
\* the step that handles the request ends it with an error, no upstream
\* call is made, and in sendMessage the session's history is unchanged.
C25_MissingAttachmentFailsAtOnce ==
  [][/\ \A r \in Requests, sid \in SessionIds :
          (HandleSendMessage(r, TRUE, sid, TRUE, FALSE)
             /\ sid \in DOMAIN chatHistories)
          => /\ req'[r].pc = "done"
             /\ req'[r].result = "Failed"
             /\ req'[r].calls = 0
             /\ NoneInFlight'
             /\ chatHistories' = chatHistories
     /\ \A r \in Requests, c \in StatelessCopies,
           promptText \in GenPrompts \ {<<>>} :
          HandleContentGeneration(r, c, promptText, "missing")
          => /\ gen'.pc = "done"
             /\ gen'.cause = "FileNotFound"
             /\ gen'.result = Rethrow("FileNotFound")
             /\ gen'.calls = 0
             /\ NoneInFlight'
             /\ chatHistories' = chatHistories]_vars

\* a session holds an exchange, and the next request on it named an
\* attachment that was missing: it failed without an upstream call and
\* without a turn in the history
C25_Witness ==
  /\ req[1].result = "ok"
  /\ req[2].result = "Failed"
  /\ req[2].hasFile
  /\ req[2].calls = 0
  /\ req[2].sid = req[1].sid
  /\ req[2].sid \in DOMAIN chatHistories
  /\ Len(chatHistories[req[2].sid]) = 2

-----------------------------------------------------------------------------
\* C26: the transcript a sendMessage request sends upstream is, on its
\* first attempt and on every retry, the session's history as it stood at
\* the session lookup followed by the request's own user turn, also when
\* another request on the same session runs in the meantime.
C26_TranscriptIsSnapshotPlusOwnTurn ==
  \A r \in Requests :
    req[r].pc = "await" =>
      req[r].sent = Append(req[r].snap, UserTurn(r, req[r].hasFile))

-----------------------------------------------------------------------------
\* C27: session histories are append-only and sessions are never destroyed:
\* across every step, an identifier in the store stays in the store, and
\* the history it had before the step is a prefix of the history it has
\* after the step.
C27_HistoriesAppendOnly ==
  [][\A s \in DOMAIN chatHistories :
       /\ s \in DOMAIN chatHistories'
       /\ IsPrefix(chatHistories[s], chatHistories'[s])]_vars

\* two sessions were started; one holds two whole exchanges in the order
\* they were made, the other is still there, empty
C27_Witness ==
  /\ Len(startLog) = 2
  /\ chatHistories[startLog[2].id] = <<>>
  /\ req[1].result = "ok" /\ req[2].result = "ok"
  /\ chatHistories[startLog[1].id] =
       <<UserTurn(1, FALSE), ModelTurn(1, req[1].text),
         UserTurn(2, FALSE), ModelTurn(2, req[2].text)>>

-----------------------------------------------------------------------------
\* C28: withRetry never completes normally without a result: for every
\* value of maxRetries, zero and negative values included, a normal return
\* of withRetry carries the result of a successful invocation of the
\* operation, its last one.
C28_ReturnCarriesResult ==
  wrPc = "returned" =>
    /\ apiCalls # <<>>
    /\ Last(apiCalls) = OK
    /\ wrResult = Value(Len(apiCalls))

-----------------------------------------------------------------------------
\* the keywords of the group `name` of the stateful classifier
ChatKeywords(name) ==
  UNION {g.keywords : g \in {h \in ChatGroups : h.name = name}}

\* C29: the classifier of sendMessage yields only the labels presentation,
\* document and default: a prompt that holds a presentation keyword (ppt,
\* presentation, powerpoint, slides) is labelled presentation also when it
\* holds a document keyword (pdf, docx, document, report), and a prompt that
\* holds neither kind of keyword, whatever stateless keywords (quiz, lesson
\* plan, ...) it holds, is labelled default.
C29_ChatLabels ==
  detected["chat"] # Unset =>
    LET pres == \E k \in ChatKeywords("presentation") : Occurs(k, prompt)
        doc == \E k \in ChatKeywords("document") : Occurs(k, prompt)
    IN /\ detected["chat"] \in {"presentation", "document", "default"}
       /\ pres => detected["chat"] = "presentation"
       /\ (~pres /\ ~doc) => detected["chat"] = "default"

\* "PDF slides quiz": the document keyword stands first, and the stateless
\* classifier says quiz
C29_Witness ==
  /\ prompt = Words[8] \o Space \o Words[7] \o Space \o Words[4]
  /\ detected["chat"] = "presentation"
  /\ detected["content"] = "quiz"

-----------------------------------------------------------------------------
\* C30: the two stateless classifiers agree on every prompt: the chain of
\* tests of chatbot.js and the priority table of services/geminiService.js
\* return the same label, whichever of lesson plan, assignment, quiz,
\* quizzes and lecture the prompt holds and wherever they stand.
C30_StatelessClassifiersAgree ==
  (detected["chatbot"] # Unset /\ detected["content"] # Unset) =>
    detected["chatbot"] = detected["content"]

\* "quiz Assignment lectures": three groups, the two of equal priority in
\* the order opposite to their declaration
C30_Witness ==
  /\ prompt = Words[4] \o Space \o Words[3] \o Space \o Words[6]
  /\ Cardinality(Matched(StatelessGroups)) = 3
  /\ detected["chatbot"] = "assignment"
  /\ detected["content"] = "assignment"

====
